---- MODULE Spec2Model ----
(***************************************************************************)
(* A model of ExprTree.cpp: tokenise, to_postfix (shunting yard),          *)
(* buildTree, evaluate and the three renderers, over an explicit heap of   *)
(* TreeNode objects.  A string is a sequence of one-character strings; a   *)
(* token is a string; the top of a stack is the last element of its        *)
(* sequence.                                                               *)
(***************************************************************************)
EXTENDS Integers, Sequences, FiniteSets, TLC

\* ------------------------------------------------------------------ bounds
MaxChars == 4
MaxTokens == 3
MaxWF == 7
MaxCalls == 2

\* ------------------------------------------------------- program constants
NULL == 0
IntMax == 2147483647
IntMin == (-IntMax) - 1

Digits == {"0", "1", "2", "3", "4", "5", "6", "7", "8", "9"}
Open == <<"(">>
Close == <<")">>
BinOps == {<<"+">>, <<"-">>, <<"*">>, <<"/">>}

Last(s) == s[Len(s)]
Front(s) == SubSeq(s, 1, Len(s) - 1)

\* -------------------------------------------------------- helper functions
isdigit(c) == c \in Digits

is_number(s) == s # <<>> /\ \A i \in 1..Len(s) : isdigit(s[i])

DigitVal(c) ==
    CASE c = "0" -> 0 [] c = "1" -> 1 [] c = "2" -> 2 [] c = "3" -> 3
      [] c = "4" -> 4 [] c = "5" -> 5 [] c = "6" -> 6 [] c = "7" -> 7
      [] c = "8" -> 8 [] c = "9" -> 9

DigitChar(d) ==
    CASE d = 0 -> "0" [] d = 1 -> "1" [] d = 2 -> "2" [] d = 3 -> "3"
      [] d = 4 -> "4" [] d = 5 -> "5" [] d = 6 -> "6" [] d = 7 -> "7"
      [] d = 8 -> "8" [] d = 9 -> "9"

\* The value of a digit string, or -1 when it does not fit an int.
RECURSIVE Decimal(_)
Decimal(s) ==
    IF s = <<>> THEN 0
    ELSE LET p == Decimal(Front(s))
             d == DigitVal(Last(s))
         IN  IF p < 0 \/ p > (IntMax - d) \div 10 THEN -1 ELSE 10 * p + d

\* atoi on a digit string: its value, or, out of int's range (undefined
\* behaviour), whatever the C library hands back.
to_number(s) ==
    IF Decimal(s) >= 0 THEN {Decimal(s)} ELSE {IntMax, IntMin, -1}

RECURSIVE DigitsOf(_)
DigitsOf(n) ==
    IF n < 10 THEN <<DigitChar(n)>>
    ELSE Append(DigitsOf(n \div 10), DigitChar(n % 10))

\* stream << n
to_string_int(n) ==
    IF n >= 0 THEN DigitsOf(n)
    ELSE IF n = IntMin
         THEN <<"-">> \o Append(DigitsOf(IntMax \div 10), "8")
         ELSE <<"-">> \o DigitsOf(-n)

\* stream << c
to_string_char(c) == <<c>>

createOperatorNode(op) ==
    IF op = <<"+">> THEN "Plus"
    ELSE IF op = <<"-">> THEN "Minus"
    ELSE IF op = <<"*">> THEN "Times"
    ELSE IF op = <<"/">> THEN "Divide"
    ELSE "NoOp"

\* new TreeNode(Operator) and new TreeNode(int)
OperatorNode(kind, l, r) == [op |-> kind, value |-> 0, left |-> l, right |-> r]
ValueNode(v) == [op |-> "Value", value |-> v, left |-> NULL, right |-> NULL]

\* countSize without the +1 for an inner node: it counts the leaves.
RECURSIVE countSize_leaves(_, _)
countSize_leaves(h, r) ==
    IF r = NULL THEN 0
    ELSE IF h[r].left = NULL /\ h[r].right = NULL THEN 1
    ELSE countSize_leaves(h, h[r].left) + countSize_leaves(h, h[r].right)

RECURSIVE countSize(_, _)
countSize(h, r) ==
    IF r = NULL THEN 0
    ELSE countSize(h, h[r].left) + countSize(h, h[r].right) + 1

\* getPrecedence with "*" and "/" ranked with "+" and "-".
getPrecedence_flat(op) ==
    IF op = Open THEN 0
    ELSE IF op \in {<<"+">>, <<"-">>, <<"*">>, <<"/">>} THEN 1
    ELSE 3

getPrecedence(op) ==
    IF op = Open THEN 0
    ELSE IF op = <<"+">> \/ op = <<"-">> THEN 1
    ELSE IF op = <<"*">> \/ op = <<"/">> THEN 2
    ELSE 3

\* ------------------------------------------------------------------- state
VARIABLES
    expression,  \* tokenise: the string being scanned
    pos,         \* tokenise: the iterator i, as an index into expression
    vec,         \* tokenise: the vector built so far
    tokens,      \* buildTree / to_postfix: the argument
    ti,          \* to_postfix: the iterator i, as an index into tokens
    opStack,     \* to_postfix: the operator stack
    postfix,     \* to_postfix: vec, then buildTree's postfix
    pi,          \* buildTree: the iterator i, as an index into postfix
    nodeStack,   \* buildTree: the stack of TreeNode pointers
    heap,        \* every TreeNode allocated by new, by address 1, 2, ...
    freed,       \* the addresses delete has been applied to
    root,        \* ExprTree::root of the tree buildTree returned
    size,        \* ExprTree::_size of that tree
    pc,          \* where the program is
    faults,      \* the undefined behaviour executed so far
    result,      \* what the last call on the tree gave back
    calls        \* the number of calls made on the tree

vars == <<expression, pos, vec, tokens, ti, opStack, postfix, pi, nodeStack,
          heap, freed, root, size, pc, faults, result, calls>>

tokVars == <<expression, pos, vec>>
postfixVars == <<tokens, ti, opStack, postfix>>
buildVars == <<pi, nodeStack, heap>>
treeVars == <<freed, root, size, result, calls>>

NoResult == [op |-> "none", kind |-> "none", ival |-> 0, sval |-> <<>>]

\* ------------------------------------------------------------------ inputs
CharAlphabet == {" ", "\t", "1", "2", "+", "*", "(", ")"}

Strings(n) == UNION {[1..k -> CharAlphabet] : k \in 0..n}

IntMaxToken == <<"2", "1", "4", "7", "4", "8", "3", "6", "4", "7">>
TooBigToken == <<"2", "1", "4", "7", "4", "8", "3", "6", "4", "8">>

WFNumbers == {<<"0">>, <<"2">>, IntMaxToken}

ArbAlphabet == {<<"2">>, TooBigToken, Open, Close, <<"+">>, <<"*">>, <<"x">>}

ArbSeqs(n) == UNION {[1..k -> ArbAlphabet] : k \in 0..n}

\* The well-formed infix token sequences of exactly n tokens:
\* E ::= number | E op E | ( E ).
RECURSIVE WFSeqs(_)
WFSeqs(n) ==
    IF n % 2 = 0 THEN {}
    ELSE IF n = 1 THEN {<<t>> : t \in WFNumbers}
    ELSE {<<Open>> \o e \o <<Close>> : e \in WFSeqs(n - 2)}
         \cup UNION {{a \o <<o>> \o b :
                         a \in WFSeqs(i), o \in BinOps, b \in WFSeqs(n - 1 - i)} :
                     i \in 1..(n - 2)}

InitTokens == ArbSeqs(MaxTokens) \cup UNION {WFSeqs(n) : n \in 1..MaxWF}

Start(e, t, p) ==
    /\ expression = e
    /\ pos = 1
    /\ vec = <<>>
    /\ tokens = t
    /\ ti = 1
    /\ opStack = <<>>
    /\ postfix = <<>>
    /\ pi = 1
    /\ nodeStack = <<>>
    /\ heap = <<>>
    /\ freed = {}
    /\ root = NULL
    /\ size = 0
    /\ pc = p
    /\ faults = {}
    /\ result = NoResult
    /\ calls = 0

\* buildTree(tokens) is called on a token sequence.
Init == \E t \in InitTokens : Start(<<>>, t, "to_postfix")

\* buildTree(tokenise(expression)) is called on a string.
InitStr == \E e \in Strings(MaxChars) : Start(e, <<>>, "tokenise")

\* ---------------------------------------------------------------- tokenise
TokeniseStep ==
    /\ pc = "tokenise"
    /\ pos <= Len(expression)
    /\ LET c == expression[pos]
       IN  vec' = IF c # " "
                  THEN IF vec # <<>> /\ isdigit(c) /\ is_number(Last(vec))
                       THEN [vec EXCEPT ![Len(vec)] = @ \o to_string_char(c)]
                       ELSE Append(vec, to_string_char(c))
                  ELSE vec
    /\ pos' = pos + 1
    /\ UNCHANGED <<expression, postfixVars, buildVars, treeVars, pc, faults>>

TokeniseReturn ==
    /\ pc = "tokenise"
    /\ pos > Len(expression)
    /\ tokens' = vec
    /\ pc' = "to_postfix"
    /\ UNCHANGED <<tokVars, ti, opStack, postfix, buildVars, treeVars, faults>>

\* -------------------------------------------------------------- to_postfix
\* while (opStack.top() != "(") { vec.push_back(top); pop } for as long as
\* the stack has a top to read.
RECURSIVE PopToOpen(_, _)
PopToOpen(stk, out) ==
    IF stk = <<>> \/ Last(stk) = Open THEN [stk |-> stk, out |-> out]
    ELSE PopToOpen(Front(stk), Append(out, Last(stk)))

\* while (!empty && getPrecedence(top) >= getPrecedence(tok)) { push_back; pop }
RECURSIVE PopWhileGE_strict(_, _, _)
PopWhileGE_strict(stk, out, tok) ==
    IF stk # <<>> /\ getPrecedence(Last(stk)) > getPrecedence(tok)
    THEN PopWhileGE_strict(Front(stk), Append(out, Last(stk)), tok)
    ELSE [stk |-> stk, out |-> out]

RECURSIVE PopWhileGE(_, _, _)
PopWhileGE(stk, out, tok) ==
    IF stk # <<>> /\ getPrecedence(Last(stk)) >= getPrecedence(tok)
    THEN PopWhileGE(Front(stk), Append(out, Last(stk)), tok)
    ELSE [stk |-> stk, out |-> out]

\* while (!opStack.empty()) { vec.push_back(top); pop }
RECURSIVE PopAll(_, _)
PopAll(stk, out) ==
    IF stk = <<>> THEN out ELSE PopAll(Front(stk), Append(out, Last(stk)))

\* What a read of the top of an empty stack<string> can give back.
GarbageTokens == {<<"?">>}

InPostfixLoop == pc = "to_postfix" /\ ti <= Len(tokens)

PostfixOpen ==
    /\ InPostfixLoop
    /\ tokens[ti] = Open
    /\ opStack' = Append(opStack, tokens[ti])
    /\ ti' = ti + 1
    /\ UNCHANGED <<tokVars, tokens, postfix, buildVars, treeVars, pc, faults>>

PostfixClose ==
    /\ InPostfixLoop
    /\ tokens[ti] = Close
    /\ LET r == PopToOpen(opStack, postfix)
       IN  /\ r.stk # <<>>
           /\ opStack' = Front(r.stk)
           /\ postfix' = r.out
    /\ ti' = ti + 1
    /\ UNCHANGED <<tokVars, tokens, buildVars, treeVars, pc, faults>>

\* No "(" is on the stack: opStack.top() reads an empty stack.
PostfixCloseUnderflow ==
    /\ InPostfixLoop
    /\ tokens[ti] = Close
    /\ LET r == PopToOpen(opStack, postfix)
       IN  /\ r.stk = <<>>
           /\ faults' = faults \cup {"StackUnderflow"}
           /\ \/ /\ pc' = "crashed"
                 /\ UNCHANGED <<ti, opStack, postfix>>
              \/ /\ postfix' \in {r.out} \cup {Append(r.out, g) : g \in GarbageTokens}
                 /\ opStack' = <<>>
                 /\ ti' = ti + 1
                 /\ UNCHANGED pc
    /\ UNCHANGED <<tokVars, tokens, buildVars, treeVars>>

PostfixOperand ==
    /\ InPostfixLoop
    /\ tokens[ti] \notin {Open, Close}
    /\ is_number(tokens[ti])
    /\ postfix' = Append(postfix, tokens[ti])
    /\ ti' = ti + 1
    /\ UNCHANGED <<tokVars, tokens, opStack, buildVars, treeVars, pc, faults>>

PostfixOperator ==
    /\ InPostfixLoop
    /\ tokens[ti] \notin {Open, Close}
    /\ ~is_number(tokens[ti])
    /\ LET r == PopWhileGE(opStack, postfix, tokens[ti])
       IN  /\ opStack' = Append(r.stk, tokens[ti])
           /\ postfix' = r.out
    /\ ti' = ti + 1
    /\ UNCHANGED <<tokVars, tokens, buildVars, treeVars, pc, faults>>

PostfixReturn ==
    /\ pc = "to_postfix"
    /\ ti > Len(tokens)
    /\ postfix' = PopAll(opStack, postfix)
    /\ opStack' = <<>>
    /\ pc' = "build"
    /\ UNCHANGED <<tokVars, tokens, ti, buildVars, treeVars, faults>>

\* --------------------------------------------------------------- buildTree
InBuildLoop == pc = "build" /\ pi <= Len(postfix)

BuildNumber ==
    /\ InBuildLoop
    /\ is_number(postfix[pi])
    /\ \E v \in to_number(postfix[pi]) :
          heap' = Append(heap, ValueNode(v))
    /\ nodeStack' = Append(nodeStack, Len(heap) + 1)
    /\ faults' = IF Decimal(postfix[pi]) < 0 THEN faults \cup {"AtoiRange"} ELSE faults
    /\ pi' = pi + 1
    /\ UNCHANGED <<tokVars, postfixVars, treeVars, pc>>

\* op->setRightChild(top); pop; op->setLeftChild(top); pop; push(op)
BuildOperator ==
    /\ InBuildLoop
    /\ ~is_number(postfix[pi])
    /\ Len(nodeStack) >= 2
    /\ LET n == Len(nodeStack)
           op == OperatorNode(createOperatorNode(postfix[pi]),
                              nodeStack[n - 1], nodeStack[n])
       IN  /\ heap' = Append(heap, op)
           /\ nodeStack' = Append(SubSeq(nodeStack, 1, n - 2), Len(heap) + 1)
    /\ pi' = pi + 1
    /\ UNCHANGED <<tokVars, postfixVars, treeVars, pc, faults>>

\* What a read of the top of an empty stack<TreeNode *> can give back: a null
\* pointer, or a stale pointer to a node allocated earlier.
GarbagePointers == {NULL} \cup (1..Len(heap))

\* Fewer than two nodes are on the stack: nodeStack.top() reads an empty stack.
BuildOperatorUnderflow ==
    /\ InBuildLoop
    /\ ~is_number(postfix[pi])
    /\ Len(nodeStack) < 2
    /\ faults' = faults \cup {"StackUnderflow"}
    /\ \/ /\ pc' = "crashed"
          /\ UNCHANGED <<pi, nodeStack, heap>>
       \/ /\ \E l \in GarbagePointers :
             \E r \in IF nodeStack = <<>> THEN GarbagePointers ELSE {Last(nodeStack)} :
                heap' = Append(heap,
                               OperatorNode(createOperatorNode(postfix[pi]), l, r))
          /\ nodeStack' = <<Len(heap) + 1>>
          /\ pi' = pi + 1
          /\ UNCHANGED pc
    /\ UNCHANGED <<tokVars, postfixVars, treeVars>>

\* return NULL / return nodeStack.top(), through ExprTree(TreeNode *)
BuildReturn ==
    /\ pc = "build"
    /\ pi > Len(postfix)
    /\ LET r == IF nodeStack = <<>> THEN NULL ELSE Last(nodeStack)
       IN  /\ root' = r
           /\ size' = countSize(heap, r)
    /\ pc' = "ready"
    /\ UNCHANGED <<tokVars, postfixVars, buildVars, freed, result, calls, faults>>

\* ---------------------------------------------------------------- evaluate
Operators == {"Plus", "Minus", "Times", "Divide"}

Abs(x) == IF x < 0 THEN -x ELSE x

\* Whether a + b, a - b, a * b, a / b is an int.
AddFits(a, b) == IF b >= 0 THEN a <= IntMax - b ELSE a >= IntMin - b

SubFits(a, b) == IF b >= 0 THEN a >= IntMin + b ELSE a <= IntMax + b

MulFits(a, b) ==
    IF a = 0 \/ b = 0 THEN TRUE
    ELSE IF a = IntMin \/ b = IntMin THEN a = 1 \/ b = 1
    ELSE LET x == Abs(a)
             y == Abs(b)
         IN  \/ x <= IntMax \div y
             \/ /\ (a < 0) # (b < 0)
                /\ (IntMax - (y - 1)) % y = 0
                /\ (IntMax - (y - 1)) \div y = x - 1

DivFits(a, b) == ~(a = IntMin /\ b = -1)

\* int / int with b # 0 and the quotient an int: rounds toward zero.
RECURSIVE TruncDiv(_, _)
TruncDiv(a, b) ==
    IF b = IntMin THEN (IF a = IntMin THEN 1 ELSE 0)
    ELSE IF a = IntMin
         THEN IF b > 0 THEN TruncDiv(a + b, b) - 1 ELSE TruncDiv(a - b, b) + 1
         ELSE LET q == Abs(a) \div Abs(b)
              IN  IF (a < 0) # (b < 0) THEN -q ELSE q

Ok(v) == [st |-> "ok", val |-> v]
Undefined(what) == [st |-> what, val |-> 0]

Arith(op, a, b) ==
    CASE op = "Plus" -> IF AddFits(a, b) THEN Ok(a + b) ELSE Undefined("IntOverflow")
      [] op = "Minus" -> IF SubFits(a, b) THEN Ok(a - b) ELSE Undefined("IntOverflow")
      [] op = "Times" -> IF MulFits(a, b) THEN Ok(a * b) ELSE Undefined("IntOverflow")
      [] op = "Divide" -> IF b = 0 THEN Undefined("DivideByZero")
                          ELSE IF DivFits(a, b) THEN Ok(TruncDiv(a, b))
                          ELSE Undefined("IntOverflow")

\* evaluate(n) on heap h with the nodes fr freed: the value, or the undefined
\* behaviour it runs into.
RECURSIVE evaluate(_, _, _)
evaluate(h, fr, n) ==
    IF n = NULL THEN Undefined("NullDeref")
    ELSE IF n \in fr THEN Undefined("UseAfterFree")
    ELSE IF h[n].op \in Operators
         THEN LET l == evaluate(h, fr, h[n].left)
                  r == evaluate(h, fr, h[n].right)
              IN  IF l.st # "ok" THEN l
                  ELSE IF r.st # "ok" THEN r
                  ELSE Arith(h[n].op, l.val, r.val)
         ELSE Ok(h[n].value)

CanCall == pc = "ready" /\ calls < MaxCalls

Returned(op, kind, i, s) == [op |-> op, kind |-> kind, ival |-> i, sval |-> s]

\* evaluateWholeTree().  Once a call has executed undefined behaviour it either
\* crashes the program or returns something unspecified and leaves the program
\* in an undefined state; no later call is modelled in either case.
EvaluateWholeTree ==
    /\ CanCall
    /\ LET e == evaluate(heap, freed, root)
       IN  \/ /\ e.st = "ok"
              /\ result' = Returned("evaluate", "int", e.val, <<>>)
              /\ UNCHANGED <<pc, faults>>
           \/ /\ e.st # "ok"
              /\ faults' = faults \cup {e.st}
              /\ result' = Returned("evaluate", "crash", 0, <<>>)
              /\ pc' = "crashed"
           \/ /\ e.st # "ok"
              /\ faults' = faults \cup {e.st}
              /\ result' = Returned("evaluate", "unspecified", 0, <<>>)
              /\ pc' = "undefined"
    /\ calls' = calls + 1
    /\ UNCHANGED <<tokVars, postfixVars, buildVars, freed, root, size>>

\* --------------------------------------------------------------- renderers
\* TreeNode::toString(): the numeral of a Value node, the symbol of an operator.
toString(nd) ==
    CASE nd.op = "Value" -> to_string_int(nd.value)
      [] nd.op = "Plus" -> <<"+">>
      [] nd.op = "Minus" -> <<"-">>
      [] nd.op = "Times" -> <<"*">>
      [] nd.op = "Divide" -> <<"/">>
      [] OTHER -> <<>>

Sp == <<" ">>

\* The three return expressions, from the node's string and its children's.
Compose(order, me, l, r) ==
    CASE order = "prefix" -> me \o Sp \o l \o Sp \o r
      [] order = "infix" -> l \o Sp \o me \o Sp \o r
      [] order = "postfix" -> l \o Sp \o r \o Sp \o me

\* prefixOrder / infixOrder / postfixOrder on the tree rooted at n: the string,
\* or the undefined behaviour the traversal runs into.
RECURSIVE Render(_, _, _, _)
Render(order, h, fr, n) ==
    IF n = NULL THEN [st |-> "NullDeref", str |-> <<>>]
    ELSE IF n \in fr THEN [st |-> "UseAfterFree", str |-> <<>>]
    ELSE IF h[n].op = "Value" THEN [st |-> "ok", str |-> toString(h[n])]
    ELSE IF h[n].op \in Operators
         THEN LET l == Render(order, h, fr, h[n].left)
                  r == Render(order, h, fr, h[n].right)
              IN  IF l.st # "ok" THEN l
                  ELSE IF r.st # "ok" THEN r
                  ELSE [st |-> "ok",
                        str |-> Compose(order, toString(h[n]), l.str, r.str)]
         ELSE [st |-> "ok", str |-> <<>>]

\* The child pointers a traversal of n passes to the recursive call: each is
\* converted to a temporary ExprTree by ExprTree(TreeNode *), and ~ExprTree
\* applies delete to it at the end of the return statement.
RECURSIVE TempRoots(_, _)
TempRoots(h, n) ==
    IF n = NULL THEN {}
    ELSE IF h[n].op \in Operators
         THEN ({h[n].left, h[n].right} \ {NULL})
              \cup TempRoots(h, h[n].left) \cup TempRoots(h, h[n].right)
         ELSE {}

\* The nodes of the subtree rooted at n.
RECURSIVE Subtree(_, _)
Subtree(h, n) ==
    IF n = NULL THEN {}
    ELSE {n} \cup Subtree(h, h[n].left) \cup Subtree(h, h[n].right)

\* TreeNode::~TreeNode releases the children it owns, so delete of a node
\* releases its subtree: a traversal releases a node twice when the node was
\* released before, or when two of the deleted temporaries reach it.
DoubleFree(h, fr, n) ==
    LET T == TempRoots(h, n)
    IN  \E a \in T : a \in fr \/ \E b \in T \ {a} : a \in Subtree(h, b)

RenderCall(order) ==
    /\ CanCall
    /\ LET r == Render(order, heap, freed, root)
           ub == (IF r.st # "ok" THEN {r.st} ELSE {})
                 \cup (IF DoubleFree(heap, freed, root) THEN {"DoubleFree"} ELSE {})
       IN  /\ faults' = faults \cup ub
           /\ \/ /\ r.st = "ok"
                 /\ result' = Returned(order, "str", 0, r.str)
                 /\ freed' = freed \cup TempRoots(heap, root)
                 /\ pc' = IF ub = {} THEN pc ELSE "undefined"
              \/ /\ ub # {}
                 /\ result' = Returned(order, "crash", 0, <<>>)
                 /\ pc' = "crashed"
                 /\ UNCHANGED freed
              \/ /\ r.st # "ok"
                 /\ result' = Returned(order, "unspecified", 0, <<>>)
                 /\ freed' = freed \cup TempRoots(heap, root)
                 /\ pc' = "undefined"
    /\ calls' = calls + 1
    /\ UNCHANGED <<tokVars, postfixVars, buildVars, root, size>>

PrefixOrder == RenderCall("prefix")
InfixOrder == RenderCall("infix")
PostfixOrder == RenderCall("postfix")

\* ---------------------------------------------------------- specifications
ToPostfix ==
    \/ PostfixOpen
    \/ PostfixClose
    \/ PostfixCloseUnderflow
    \/ PostfixOperand
    \/ PostfixOperator
    \/ PostfixReturn

BuildTree ==
    \/ BuildNumber
    \/ BuildOperator
    \/ BuildOperatorUnderflow
    \/ BuildReturn

Next ==
    \/ ToPostfix
    \/ BuildTree
    \/ EvaluateWholeTree
    \/ PrefixOrder
    \/ InfixOrder
    \/ PostfixOrder

Spec == Init /\ [][Next]_vars

NextStr ==
    \/ TokeniseStep
    \/ TokeniseReturn
    \/ ToPostfix
    \/ BuildTree

SpecStr == InitStr /\ [][NextStr]_vars

\* ================================================================== claims
\* ------------------------------------------- what an expression is and means
Additive == {<<"+">>, <<"-">>}
Multiplicative == {<<"*">>, <<"/">>}

\* The index of the ")" that closes the "(" the scan is d levels inside of,
\* from index i on; 0 when there is none.
RECURSIVE FindClose(_, _, _)
FindClose(t, i, d) ==
    IF i > Len(t) THEN 0
    ELSE IF t[i] = Open THEN FindClose(t, i + 1, d + 1)
    ELSE IF t[i] = Close
         THEN IF d = 1 THEN i ELSE FindClose(t, i + 1, d - 1)
         ELSE FindClose(t, i + 1, d)

\* t is a well-formed infix expression: operands (numbers or parenthesised
\* expressions) separated by binary operators.
RECURSIVE IsExpr(_)
IsExpr(t) ==
    /\ t # <<>>
    /\ LET k == IF is_number(t[1]) THEN 1
                ELSE IF t[1] = Open THEN FindClose(t, 2, 1)
                ELSE 0
       IN  /\ k > 0
           /\ t[1] = Open => IsExpr(SubSeq(t, 2, k - 1))
           /\ \/ k = Len(t)
              \/ /\ k + 1 < Len(t)
                 /\ t[k + 1] \in BinOps
                 /\ IsExpr(SubSeq(t, k + 2, Len(t)))

\* The number of unclosed "(" before index i.
Depth(t, i) ==
    Cardinality({j \in 1..(i - 1) : t[j] = Open})
    - Cardinality({j \in 1..(i - 1) : t[j] = Close})

Balanced(t) ==
    /\ Depth(t, Len(t) + 1) = 0
    /\ \A i \in 1..Len(t) : Depth(t, i + 1) >= 0

TopLevel(t, ops) == {i \in 1..Len(t) : t[i] \in ops /\ Depth(t, i) = 0}

MaxOf(S) == CHOOSE x \in S : \A y \in S : y <= x

\* The operator applied last under standard precedence and left-to-right
\* associativity: the last "+" or "-" outside parentheses, else the last "*"
\* or "/" outside parentheses; 0 when the expression is a single operand.
RootOp(t) ==
    IF TopLevel(t, Additive) # {} THEN MaxOf(TopLevel(t, Additive))
    ELSE IF TopLevel(t, Multiplicative) # {} THEN MaxOf(TopLevel(t, Multiplicative))
    ELSE 0

\* The value of the well-formed expression t: def says no division by zero
\* occurs, fits that every operand and every intermediate result is an int,
\* and val is the value when both hold.
RECURSIVE Meaning(_)
Meaning(t) ==
    LET k == RootOp(t)
    IN  IF k = 0
        THEN IF t[1] = Open THEN Meaning(SubSeq(t, 2, Len(t) - 1))
             ELSE [def |-> TRUE, fits |-> Decimal(t[1]) >= 0, val |-> Decimal(t[1])]
        ELSE LET l == Meaning(SubSeq(t, 1, k - 1))
                 r == Meaning(SubSeq(t, k + 1, Len(t)))
                 ok == l.def /\ r.def /\ l.fits /\ r.fits
             IN  IF ~ok
                 THEN [def |-> l.def /\ r.def, fits |-> FALSE, val |-> 0]
                 ELSE IF t[k] = <<"+">>
                 THEN IF AddFits(l.val, r.val)
                      THEN [def |-> TRUE, fits |-> TRUE, val |-> l.val + r.val]
                      ELSE [def |-> TRUE, fits |-> FALSE, val |-> 0]
                 ELSE IF t[k] = <<"-">>
                 THEN IF SubFits(l.val, r.val)
                      THEN [def |-> TRUE, fits |-> TRUE, val |-> l.val - r.val]
                      ELSE [def |-> TRUE, fits |-> FALSE, val |-> 0]
                 ELSE IF t[k] = <<"*">>
                 THEN IF MulFits(l.val, r.val)
                      THEN [def |-> TRUE, fits |-> TRUE, val |-> l.val * r.val]
                      ELSE [def |-> TRUE, fits |-> FALSE, val |-> 0]
                 ELSE IF r.val = 0
                      THEN [def |-> FALSE, fits |-> TRUE, val |-> 0]
                      ELSE IF DivFits(l.val, r.val)
                      THEN [def |-> TRUE, fits |-> TRUE, val |-> TruncDiv(l.val, r.val)]
                      ELSE [def |-> TRUE, fits |-> FALSE, val |-> 0]

\* The notation of the well-formed expression t without parentheses.
RECURSIVE Notation(_, _)
Notation(order, t) ==
    LET k == RootOp(t)
    IN  IF k = 0
        THEN IF t[1] = Open THEN Notation(order, SubSeq(t, 2, Len(t) - 1))
             ELSE to_string_int(Decimal(t[1]))
        ELSE LET l == Notation(order, SubSeq(t, 1, k - 1))
                 r == Notation(order, SubSeq(t, k + 1, Len(t)))
             IN  CASE order = "prefix" -> t[k] \o <<" ">> \o l \o <<" ">> \o r
                   [] order = "infix" -> l \o <<" ">> \o t[k] \o <<" ">> \o r
                   [] order = "postfix" -> l \o <<" ">> \o r \o <<" ">> \o t[k]

\* evaluateWholeTree was the first call on the tree buildTree(tokens) returned.
EvaluatedFresh == result.op = "evaluate" /\ calls = 1

Rendered == result.op \in {"prefix", "infix", "postfix"}

OperandsFit(t) == \A i \in 1..Len(t) : is_number(t[i]) => Decimal(t[i]) >= 0

\* ---------------------------------------------------------------------- C1
\* C1, as stated: for every well-formed infix token sequence without a
\* division by zero, evaluateWholeTree(buildTree(tokens)) returns the value
\* of the expression under standard precedence, left-to-right associativity
\* and truncating division.
C1_EvaluatesToValue ==
    (EvaluatedFresh /\ IsExpr(tokens) /\ Meaning(tokens).def)
        => /\ result.kind = "int"
           /\ Meaning(tokens).fits
           /\ result.ival = Meaning(tokens).val

\* C1, amended: the same, for the well-formed token sequences whose operands
\* and intermediate results all fit a 32-bit int.
C1_EvaluatesToValueInRange ==
    (EvaluatedFresh /\ IsExpr(tokens) /\ Meaning(tokens).def /\ Meaning(tokens).fits)
        => /\ result.kind = "int"
           /\ result.ival = Meaning(tokens).val

\* A parenthesised difference divided: the quotient is negative and rounded
\* toward zero.
C1_Witness ==
    /\ EvaluatedFresh
    /\ IsExpr(tokens)
    /\ Len(tokens) = 7
    /\ tokens[1] = Open
    /\ tokens[6] = <<"/">>
    /\ Meaning(tokens).def
    /\ Meaning(tokens).fits
    /\ result.kind = "int"
    /\ result.ival < 0

\* ---------------------------------------------------------------------- C2
Strip(s) == SelectSeq(s, LAMBDA c : c # " ")

\* s cut into its maximal digit runs and its other characters.
RECURSIVE Runs(_)
Runs(s) ==
    IF s = <<>> THEN <<>>
    ELSE IF isdigit(s[1])
         THEN LET stops == {i \in 1..Len(s) : ~isdigit(s[i])}
                  k == IF stops = {} THEN Len(s)
                       ELSE (CHOOSE i \in stops : \A j \in stops : i <= j) - 1
              IN  <<SubSeq(s, 1, k)>> \o Runs(SubSeq(s, k + 1, Len(s)))
         ELSE <<(<<s[1]>>)>> \o Runs(Tail(s))

\* The numbers and the operators written in s.
NumbersIn(s) ==
    Cardinality({i \in 1..Len(s) : isdigit(s[i]) /\ (i = 1 \/ ~isdigit(s[i - 1]))})

OperatorsIn(s) == Cardinality({i \in 1..Len(s) : <<s[i]>> \in BinOps})

WellFormedString(e) == IsExpr(Runs(Strip(e)))

Whitespace == {" ", "\t"}

RECURSIVE Flatten(_)
Flatten(ts) == IF ts = <<>> THEN <<>> ELSE Head(ts) \o Flatten(Tail(ts))

\* C3: tokenise drops all whitespace; the tokens, concatenated, are the input
\* without its whitespace; each token is one non-digit character or a maximal
\* run of digits, so no two adjacent tokens are numbers.
C3_TokeniseDropsWhitespace ==
    pc # "tokenise"
        => /\ Flatten(tokens) = SelectSeq(expression, LAMBDA c : c \notin Whitespace)
           /\ \A i \in 1..Len(tokens) :
                 /\ \A j \in 1..Len(tokens[i]) : tokens[i][j] \notin Whitespace
                 /\ is_number(tokens[i]) \/ (Len(tokens[i]) = 1 /\ ~isdigit(tokens[i][1]))
           /\ \A i \in 1..(Len(tokens) - 1) :
                 ~(is_number(tokens[i]) /\ is_number(tokens[i + 1]))

\* ---------------------------------------------------------------------- C4
\* C4: for every tree built from a well-formed token sequence, prefixOrder,
\* infixOrder and postfixOrder return the notation of the expression, the
\* symbols separated by single spaces, without parentheses.
C4_RenderersReturnNotation ==
    (Rendered /\ IsExpr(tokens) /\ OperandsFit(tokens))
        => /\ result.kind = "str"
           /\ result.sval = Notation(result.op, tokens)

\* ---------------------------------------------------------------------- C5
\* Some Divide node of the tree has a right subtree that evaluates to zero.
DividesByZero ==
    \E d \in Subtree(heap, root) :
        /\ heap[d].op = "Divide"
        /\ evaluate(heap, {}, heap[d].right) = Ok(0)

\* C5: evaluating a tree in which a Divide node's right subtree evaluates to
\* zero fails with a DivisionByZero error reported to the caller.
C5_DivisionByZeroReported ==
    (EvaluatedFresh /\ IsExpr(tokens) /\ DividesByZero)
        => result.kind = "DivisionByZero"

\* ---------------------------------------------------------------------- C6
\* C6: evaluating or rendering a tree with no root fails with an EmptyTree
\* error.
C6_EmptyTreeReported ==
    (result.op # "none" /\ root = NULL) => result.kind = "EmptyTree"

\* ---------------------------------------------------------------------- C7
\* C7: on every token sequence, to_postfix and buildTree never read the top
\* of or pop an empty stack.
C7_NoEmptyStackAccess == "StackUnderflow" \notin faults

\* ---------------------------------------------------------------------- C8
\* C8: the renderers never mutate the tree: after any sequence of render
\* calls every node of the tree is still live (here: of a tree built from a
\* well-formed token sequence).
C8_RenderersLeaveTreeIntact ==
    IsExpr(tokens) => Subtree(heap, root) \cap freed = {}

\* ---------------------------------------------------------------------- C9
\* The child slots of the tree's nodes that hold a node.
ChildSlots ==
    {<<n, side>> \in Subtree(heap, root) \X {"left", "right"} :
        (IF side = "left" THEN heap[n].left ELSE heap[n].right) # NULL}

SlotTarget(sl) == IF sl[2] = "left" THEN heap[sl[1]].left ELSE heap[sl[1]].right

\* C9: in every tree buildTree returns, a Value node has no children, an
\* operator node has both, each child has exactly one parent, the node
\* popped first is the right child and the one popped second the left child;
\* on well-formed input the node stack ends with exactly one entry, the root.
\* Nodes are allocated in postfix order, so the node on top of the stack
\* when operator node n is made is n - 1, and the one below it is the root
\* of the subtree allocated just before the subtree of n - 1.
C9_TreeShape ==
    pc = "ready"
        => /\ \A n \in Subtree(heap, root) :
                 /\ heap[n].op = "Value"
                       => (heap[n].left = NULL /\ heap[n].right = NULL)
                 /\ heap[n].op \in Operators
                       => /\ heap[n].left # NULL
                          /\ heap[n].right = n - 1
                          /\ heap[n].left = n - 1 - countSize(heap, n - 1)
           /\ \A a, b \in ChildSlots : SlotTarget(a) = SlotTarget(b) => a = b
           /\ \A sl \in ChildSlots : SlotTarget(sl) # root
           /\ IsExpr(tokens) => nodeStack = <<root>>

\* --------------------------------------------------------------------- C10
Count(seq, x) == Cardinality({i \in 1..Len(seq) : seq[i] = x})

NotParen(t) == t \notin {Open, Close}

\* C10: at every step of to_postfix, operators stacked next to each other
\* (no "(" between them) have strictly increasing precedence from bottom to
\* top, ")" is never on the stack, the output holds no parenthesis when the
\* input's are balanced; on termination the output is a permutation of the
\* input's non-parenthesis tokens with the operands in their original order.
C10_PostfixInvariants ==
    /\ \A i \in 1..(Len(opStack) - 1) :
          (opStack[i] # Open /\ opStack[i + 1] # Open)
              => getPrecedence(opStack[i]) < getPrecedence(opStack[i + 1])
    /\ \A i \in 1..Len(opStack) : opStack[i] # Close
    /\ Balanced(tokens) => \A i \in 1..Len(postfix) : NotParen(postfix[i])
    /\ pc \in {"build", "ready"}
          => /\ \A i \in 1..Len(postfix) : NotParen(postfix[i])
             /\ Len(postfix) = Len(SelectSeq(tokens, NotParen))
             /\ \A i \in 1..Len(tokens) :
                   NotParen(tokens[i]) => Count(postfix, tokens[i]) = Count(tokens, tokens[i])
             /\ SelectSeq(postfix, is_number) = SelectSeq(tokens, is_number)

====
